---------------------------- MODULE Spec2Model ----------------------------
(***************************************************************************)
(* The JEDEC fuse-map serializer of galette.                                *)
(*                                                                         *)
(* Two encoders live in the repository and both are modelled:              *)
(*   - src/src/jedec_writer.rs : CheckSummer, FuseBuilder and the          *)
(*     Chip-typed make_jedec (row chunks, skip of all-zero rows);          *)
(*   - src/src/lib.rs          : call_from_c, its own CheckSummer and the  *)
(*     integer-tagged make_jedec (index based).                            *)
(*                                                                         *)
(* The output buffer is a sequence of lines, each line a sequence of byte  *)
(* values; the text of the buffer is the concatenation of its lines.  A    *)
(* line that does not end in a newline (10) is still open and the next     *)
(* push continues it.                                                      *)
(***************************************************************************)
EXTENDS Integers, Sequences, FiniteSets

VARIABLES
    impl,             \* "jedec_writer" | "lib" : which encoder is called
    gal_type,         \* the chip (Chip enum / i32 tag)
    jedec_sec_bit,    \* config.jedec_sec_bit
    gal_fuses,        \* main matrix
    gal_xor, gal_s1, gal_sig, gal_ac1, gal_pt, gal_syn, gal_ac0,
    pc,               \* position inside the call
    buf,              \* the String being built, as lines of bytes
    checksum,         \* the CheckSummer in use
    idx,              \* FuseBuilder.idx / lib.rs bitnum
    fed,              \* history: the bits handed to CheckSummer.add, in order
    file_written,     \* call_from_c reached File::create / write_all
    cs_n,             \* CheckSummer harness: number of add calls so far
    cs_total,         \* CheckSummer harness: exact sum of the packed bits
    cs_tail,          \* CheckSummer harness: add calls since the first 0 bit
    cs_out,           \* CheckSummer harness: what the last get() returned
    overflow_checks   \* CheckSummer harness: the build (TRUE: overflow panics)

vars == <<impl, gal_type, jedec_sec_bit, gal_fuses, gal_xor, gal_s1, gal_sig,
          gal_ac1, gal_pt, gal_syn, gal_ac0, pc, buf,
          checksum, idx, fed, file_written, cs_n, cs_total, cs_tail, cs_out,
          overflow_checks>>

inputs == <<impl, gal_type, jedec_sec_bit, gal_fuses, gal_xor, gal_s1, gal_sig,
            gal_ac1, gal_pt, gal_syn, gal_ac0>>

harness == <<cs_n, cs_total, cs_tail, cs_out, overflow_checks>>

---------------------------------------------------------------------------
(* Program constants.                                                      *)

GAL16V8 == 1
GAL20V8 == 2
GAL22V10 == 3
GAL20RA10 == 4

\* jedec_writer.rs: number of fuses per row.
ROW_LEN_ADR16 == 32
ROW_LEN_ADR20 == 40
ROW_LEN_ADR22V10 == 44
ROW_LEN_ADR20RA10 == 40

\* lib.rs: number of rows, and the highest fuse address of a row.
ROW_SIZE_16V8 == 64
ROW_SIZE_20V8 == 64
ROW_SIZE_22V10 == 132
ROW_SIZE_20RA10 == 80

MAX_FUSE_ADR16 == 31
MAX_FUSE_ADR20 == 39
MAX_FUSE_ADR22V10 == 43
MAX_FUSE_ADR20RA10 == 39

SIG_SIZE == 64
AC1_SIZE == 8
PT_SIZE == 64

\* lib.rs call_from_c: the slice lengths taken from the raw pointers.
C_FUSES_LEN == 5808
C_XOR_LEN == 10
C_S1_LEN == 10

U16 == 65536

Chips == {GAL16V8, GAL20V8, GAL22V10, GAL20RA10}

\* jedec_writer.rs make_jedec: let row_len = match gal_type
row_len(t) ==
    CASE t = GAL16V8 -> ROW_LEN_ADR16
      [] t = GAL20V8 -> ROW_LEN_ADR20
      [] t = GAL22V10 -> ROW_LEN_ADR22V10
      [] t = GAL20RA10 -> ROW_LEN_ADR20RA10

\* lib.rs make_jedec: let (max_fuse_addr, row_size, xor_size) = match gal_type
max_fuse_addr(t) ==
    CASE t = GAL16V8 -> MAX_FUSE_ADR16
      [] t = GAL20V8 -> MAX_FUSE_ADR20
      [] t = GAL22V10 -> MAX_FUSE_ADR22V10
      [] t = GAL20RA10 -> MAX_FUSE_ADR20RA10

row_size(t) ==
    CASE t = GAL16V8 -> ROW_SIZE_16V8
      [] t = GAL20V8 -> ROW_SIZE_20V8
      [] t = GAL22V10 -> ROW_SIZE_22V10
      [] t = GAL20RA10 -> ROW_SIZE_20RA10

xor_size(t) ==
    CASE t = GAL16V8 -> 8
      [] t = GAL20V8 -> 8
      [] t = GAL22V10 -> 10
      [] t = GAL20RA10 -> 10

---------------------------------------------------------------------------
(* Text: the literals the encoders push, and the two number formats.       *)

NL == 10

STX_LINE == <<2, 10>>
USED_PROGRAM == <<85, 115, 101, 100, 32, 80, 114, 111, 103, 114, 97, 109, 58,
                  32, 32, 32, 71, 65, 76, 97, 115, 109, 32, 50, 46, 49, 10>>
GAL_ASSEMBLER == <<71, 65, 76, 45, 65, 115, 115, 101, 109, 98, 108, 101, 114,
                   58, 32, 32, 71, 65, 76, 97, 115, 109, 32, 50, 46, 49, 10>>
\* "Device:         " followed by the chip's name and two newlines
DEVICE_PREFIX == <<68, 101, 118, 105, 99, 101, 58, 32, 32, 32, 32, 32, 32, 32,
                   32, 32>>
device_name(t) ==
    CASE t = GAL16V8 -> <<71, 65, 76, 49, 54, 86, 56>>
      [] t = GAL20V8 -> <<71, 65, 76, 50, 48, 86, 56>>
      [] t = GAL22V10 -> <<71, 65, 76, 50, 50, 86, 49, 48>>
      [] t = GAL20RA10 -> <<71, 65, 76, 50, 48, 82, 65, 49, 48>>
F0_LINE == <<42, 70, 48, 10>>
G1_LINE == <<42, 71, 49, 10>>
G0_LINE == <<42, 71, 48, 10>>
\* "*QF2194\n", "*QF2706\n", "*QF5892\n", "*QF3274\n"
qf_line(t) ==
    CASE t = GAL16V8 -> <<42, 81, 70, 50, 49, 57, 52, 10>>
      [] t = GAL20V8 -> <<42, 81, 70, 50, 55, 48, 54, 10>>
      [] t = GAL22V10 -> <<42, 81, 70, 53, 56, 57, 50, 10>>
      [] t = GAL20RA10 -> <<42, 81, 70, 51, 50, 55, 52, 10>>
STAR_L == <<42, 76>>
STAR_C == <<42, 67>>
STAR_LINE == <<42, 10>>
ETX == <<3>>

\* One digit of a number, as format! prints it (lowercase for a..f).
DigitChar(d) == IF d < 10 THEN 48 + d ELSE 87 + d

RECURSIVE Digits(_, _)
Digits(n, base) ==
    IF n < base THEN <<DigitChar(n)>>
    ELSE Append(Digits(n \div base, base), DigitChar(n % base))

\* format!("{:04}", n) and format!("{:04x}", n): at least four digits, padded
\* with zeros on the left; a wider number is printed whole.
Pad04(ds) ==
    IF Len(ds) >= 4 THEN ds ELSE [i \in 1..(4 - Len(ds)) |-> 48] \o ds

fmt_04(n) == Pad04(Digits(n, 10))
fmt_04x(n) == Pad04(Digits(n, 16))

\* String::push_str / push on the line representation: continue the open
\* line, or start a new one.  s holds at most one newline, at its end.
push_str(b, s) ==
    IF b # <<>> /\ (b[Len(b)] = <<>> \/ b[Len(b)][Len(b[Len(b)])] # NL)
    THEN [b EXCEPT ![Len(b)] = @ \o s]
    ELSE Append(b, s)


Min(a, b) == IF a < b THEN a ELSE b

---------------------------------------------------------------------------
(* jedec_writer.rs: CheckSummer.                                           *)

\* self.byte |= 1 << self.bit_num, on a u8
OrBit(byte, k) == IF (byte \div (2 ^ k)) % 2 = 1 THEN byte ELSE byte + 2 ^ k

CheckSummer_new == [bit_num |-> 0, byte |-> 0, sum |-> 0]

\* Mutant of CheckSummer_add: the bits of a byte are packed most significant
\* first (1 << (7 - bit_num)).
CheckSummer_add_msb_first(cs, bit) ==
    LET byte1 == IF bit THEN OrBit(cs.byte, 7 - cs.bit_num) ELSE cs.byte
        bit_num1 == cs.bit_num + 1
    IN  IF bit_num1 = 8
        THEN [bit_num |-> 0, byte |-> 0, sum |-> (cs.sum + byte1) % U16]
        ELSE [bit_num |-> bit_num1, byte |-> byte1, sum |-> cs.sum]

CheckSummer_add(cs, bit) ==
    LET byte1 == IF bit THEN OrBit(cs.byte, cs.bit_num) ELSE cs.byte
        bit_num1 == cs.bit_num + 1
    IN  IF bit_num1 = 8
        THEN [bit_num |-> 0, byte |-> 0, sum |-> (cs.sum + byte1) % U16]  \* wrapping_add
        ELSE [bit_num |-> bit_num1, byte |-> byte1, sum |-> cs.sum]

\* (self.sum + self.byte as u16) & 0xffff : the u16 addition comes first, and
\* overflows when the sum passes 65535: a panic in a build with overflow
\* checks, a wrap in one without.
CheckSummer_get(cs, checks) ==
    IF cs.sum + cs.byte >= U16 /\ checks
    THEN [ok |-> FALSE, val |-> 0]
    ELSE [ok |-> TRUE, val |-> ((cs.sum + cs.byte) % U16) % U16]

\* for bit in data { self.checksum.add(*bit) } over data[lo..hi]
RECURSIVE add_all(_, _, _, _)
add_all(cs, data, lo, hi) ==
    IF lo > hi THEN cs
    ELSE IF lo = hi THEN CheckSummer_add(cs, data[lo])
    ELSE LET mid == (lo + hi) \div 2
             first == add_all(cs, data, lo, mid)
         IN  \* the first half is computed before the second starts
             IF first.bit_num >= 0 THEN add_all(first, data, mid + 1, hi) ELSE first

---------------------------------------------------------------------------
(* jedec_writer.rs: FuseBuilder.  A builder is the record                   *)
(* [buf, checksum, idx, fed]; fed is the history of the bits it passed to  *)
(* its CheckSummer.                                                        *)

FuseBuilder_new(b) ==
    [buf |-> b, checksum |-> CheckSummer_new, idx |-> 0, fed |-> <<>>]

bit_chars(data) == [i \in 1..Len(data) |-> IF data[i] THEN 49 ELSE 48]

add_iter(fb, data) ==
    [buf |-> push_str(fb.buf,
                      STAR_L \o fmt_04(fb.idx) \o <<32>> \o bit_chars(data) \o <<NL>>),
     checksum |-> add_all(fb.checksum, data, 1, Len(data)),
     idx |-> fb.idx + Len(data),
     fed |-> fb.fed \o data]

\* Mutant of skip_iter: the skipped bits are not fed to the checksum.
skip_iter_no_add(fb, data) ==
    [buf |-> fb.buf,
     checksum |-> fb.checksum,
     idx |-> fb.idx + Len(data),
     fed |-> fb.fed]

\* Mutant of skip_iter: the skipped bits do not advance the offset.
skip_iter_no_idx(fb, data) ==
    [buf |-> fb.buf,
     checksum |-> add_all(fb.checksum, data, 1, Len(data)),
     idx |-> fb.idx,
     fed |-> fb.fed \o data]

skip_iter(fb, data) ==
    [buf |-> fb.buf,
     checksum |-> add_all(fb.checksum, data, 1, Len(data)),
     idx |-> fb.idx + Len(data),
     fed |-> fb.fed \o data]

\* FuseBuilder::checksum: needs the value get() returns
FuseBuilder_checksum(fb, val) ==
    [fb EXCEPT !.buf = push_str(fb.buf, STAR_C \o fmt_04x(val) \o <<NL>>)]

---------------------------------------------------------------------------
(* jedec_writer.rs: make_jedec, step by step.                              *)

\* gal_fuses.iter().chunks(row_len): the number of chunks and the r-th one
\* (r from 0); the last chunk is shorter when the length is no multiple.
num_chunks(fuses, w) == (Len(fuses) + w - 1) \div w
chunk(fuses, w, r) == SubSeq(fuses, r * w + 1, Min((r + 1) * w, Len(fuses)))

\* check_iter.any(|x| *x)
any(row) == \E i \in 1..Len(row) : row[i]

row_step(fb, row) == IF any(row) THEN add_iter(fb, row) ELSE skip_iter(fb, row)

\* for row in &gal_fuses.iter().chunks(row_len), over the chunks lo..hi
RECURSIVE matrix_rows(_, _, _, _, _)
matrix_rows(fb, fuses, w, lo, hi) ==
    IF lo > hi THEN fb
    ELSE IF lo = hi THEN row_step(fb, chunk(fuses, w, lo))
    ELSE LET mid == (lo + hi) \div 2
             first == matrix_rows(fb, fuses, w, lo, mid)
         IN  \* the first half is computed before the second starts
             IF first.idx >= 0 THEN matrix_rows(first, fuses, w, mid + 1, hi) ELSE first

\* itertools::interleave(a, b): a[1], b[1], a[2], b[2], ... and, once one of
\* them ends, the rest of the other.
interleave(a, b) ==
    LET m == Min(Len(a), Len(b))
    IN  [k \in 1..(Len(a) + Len(b)) |->
            IF k <= 2 * m
            THEN IF k % 2 = 1 THEN a[(k + 1) \div 2] ELSE b[k \div 2]
            ELSE IF Len(a) > Len(b) THEN a[k - m] ELSE b[k - m]]

header(t, sec) ==
    <<STX_LINE, USED_PROGRAM, GAL_ASSEMBLER,
      DEVICE_PREFIX \o device_name(t) \o <<NL>>, <<NL>>,
      F0_LINE,
      IF sec # 0 THEN G1_LINE ELSE G0_LINE,
      qf_line(t)>>

\* Mutant of xor_section: S1 is never interleaved.
xor_section_no_s1(fb, t, xor, s1) == add_iter(fb, xor)

xor_section(fb, t, xor, s1) ==
    IF t # GAL22V10 THEN add_iter(fb, xor) ELSE add_iter(fb, interleave(xor, s1))

\* Mutant of has_ac1_pt_syn_ac0: GAL20RA10 is taken for a chip with the fields.
has_ac1_pt_syn_ac0_ra10(t) == (t = GAL16V8) \/ (t = GAL20V8) \/ (t = GAL20RA10)

has_ac1_pt_syn_ac0(t) == (t = GAL16V8) \/ (t = GAL20V8)

RECURSIVE sum_seq(_, _, _)
sum_seq(s, lo, hi) ==
    IF lo > hi THEN 0
    ELSE IF lo = hi THEN s[lo]
    ELSE LET mid == (lo + hi) \div 2
         IN  sum_seq(s, lo, mid) + sum_seq(s, mid + 1, hi)

\* buf.as_bytes().iter().map(|c| *c as u32).sum::<u32>(), over the lines
\* lo..hi of the buffer (a buffer of this size cannot overflow the u32)
RECURSIVE sum_lines(_, _, _)
sum_lines(b, lo, hi) ==
    IF lo > hi THEN 0
    ELSE IF lo = hi THEN sum_seq(b[lo], 1, Len(b[lo]))
    ELSE LET mid == (lo + hi) \div 2
         IN  sum_lines(b, lo, mid) + sum_lines(b, mid + 1, hi)

sum_bytes(b) == sum_lines(b, 1, Len(b))

\* format!("{:04x}\n", file_checksum): the u32 sum is printed unmasked
file_checksum_line(b) == fmt_04x(sum_bytes(b)) \o <<NL>>

FB == [buf |-> buf, checksum |-> checksum, idx |-> idx, fed |-> fed]
SetFB(fb) ==
    /\ buf' = fb.buf
    /\ checksum' = fb.checksum
    /\ idx' = fb.idx
    /\ fed' = fb.fed

JW(at) == impl = "jedec_writer" /\ pc = at

jw_header ==
    /\ JW("start")
    /\ SetFB(FuseBuilder_new(header(gal_type, jedec_sec_bit)))
    /\ pc' = "matrix"
    /\ UNCHANGED <<inputs, file_written, harness>>

jw_matrix ==
    /\ JW("matrix")
    /\ SetFB(matrix_rows(FB, gal_fuses, row_len(gal_type), 0,
                          num_chunks(gal_fuses, row_len(gal_type)) - 1))
    /\ pc' = "xor"
    /\ UNCHANGED <<inputs, file_written, harness>>

jw_xor ==
    /\ JW("xor")
    /\ SetFB(xor_section(FB, gal_type, gal_xor, gal_s1))
    /\ pc' = "sig"
    /\ UNCHANGED <<inputs, file_written, harness>>

jw_sig ==
    /\ JW("sig")
    /\ SetFB(add_iter(FB, gal_sig))
    /\ pc' = IF has_ac1_pt_syn_ac0(gal_type) THEN "ac1" ELSE "checksum"
    /\ UNCHANGED <<inputs, file_written, harness>>

jw_ac1 ==
    /\ JW("ac1")
    /\ SetFB(add_iter(FB, gal_ac1))
    /\ pc' = "pt"
    /\ UNCHANGED <<inputs, file_written, harness>>

jw_pt ==
    /\ JW("pt")
    /\ SetFB(add_iter(FB, gal_pt))
    /\ pc' = "syn"
    /\ UNCHANGED <<inputs, file_written, harness>>

jw_syn ==
    /\ JW("syn")
    /\ SetFB(add_iter(FB, <<gal_syn>>))
    /\ pc' = "ac0"
    /\ UNCHANGED <<inputs, file_written, harness>>

jw_ac0 ==
    /\ JW("ac0")
    /\ SetFB(add_iter(FB, <<gal_ac0>>))
    /\ pc' = "checksum"
    /\ UNCHANGED <<inputs, file_written, harness>>

jw_checksum ==
    /\ JW("checksum")
    /\ \E checks \in BOOLEAN :
       LET got == CheckSummer_get(checksum, checks)
       IN  IF got.ok
           THEN /\ SetFB(FuseBuilder_checksum(FB, got.val))
                /\ pc' = "footer"
           ELSE /\ pc' = "panic"
                /\ UNCHANGED <<buf, checksum, idx, fed>>
    /\ UNCHANGED <<inputs, file_written, harness>>

jw_footer ==
    /\ JW("footer")
    /\ buf' = push_str(push_str(buf, STAR_LINE), ETX)
    /\ pc' = "file_checksum"
    /\ UNCHANGED <<inputs, checksum, idx, fed, file_written, harness>>

jw_file_checksum ==
    /\ JW("file_checksum")
    /\ buf' = push_str(buf, file_checksum_line(buf))
    /\ pc' = "done"
    /\ UNCHANGED <<inputs, checksum, idx, fed, file_written, harness>>

---------------------------------------------------------------------------
(* lib.rs: CheckSummer.  Bits are u8 values; an operation yields            *)
(* [ok, cs]: ok is FALSE once an addition has panicked.                    *)

lib_CheckSummer_add(cs, bit, checks) ==
    LET byte1 == IF bit # 0 THEN OrBit(cs.byte, cs.bit_num) ELSE cs.byte
        bit_num1 == cs.bit_num + 1
    IN  IF bit_num1 = 8
        THEN \* self.sum = (self.sum + self.byte as u16) & 0xffff
             IF cs.sum + byte1 >= U16 /\ checks
             THEN [ok |-> FALSE, cs |-> cs]
             ELSE [ok |-> TRUE,
                   cs |-> [bit_num |-> 0, byte |-> 0,
                           sum |-> ((cs.sum + byte1) % U16) % U16]]
        ELSE [ok |-> TRUE,
              cs |-> [bit_num |-> bit_num1, byte |-> byte1, sum |-> cs.sum]]

lib_CheckSummer_get(cs, checks) ==
    IF cs.sum + cs.byte >= U16 /\ checks
    THEN [ok |-> FALSE, val |-> 0]
    ELSE [ok |-> TRUE, val |-> ((cs.sum + cs.byte) % U16) % U16]

\* for n in lo..hi { check_sum.add(data[n]) }
RECURSIVE lib_add_all(_, _, _, _, _)
lib_add_all(r, data, lo, hi, checks) ==
    IF lo > hi \/ ~r.ok THEN r
    ELSE IF lo = hi THEN lib_CheckSummer_add(r.cs, data[lo], checks)
    ELSE LET mid == (lo + hi) \div 2
             first == lib_add_all(r, data, lo, mid, checks)
         IN  \* the first half is computed before the second starts
             IF first.ok THEN lib_add_all(first, data, mid + 1, hi, checks) ELSE first

---------------------------------------------------------------------------
(* lib.rs: call_from_c and the integer-tagged make_jedec.                  *)

lib_bit_chars(data, lo, n) == [i \in 1..n |-> IF data[lo + i] # 0 THEN 49 ELSE 48]

\* One turn of "for m in 0..row_size": st = [buf, bitnum, bitnum2, flag].
\* The scan stops at the first non-zero fuse of the row; bitnum2 is left
\* there, or past the row when there is none.
lib_row(st, fuses, w) ==
    LET hits == {n \in 0..(w - 1) : fuses[st.bitnum + n + 1] # 0}
        flag1 == IF hits = {} THEN 0 ELSE 1
        first == CHOOSE n \in hits : \A k \in hits : n <= k
        bitnum2 == IF hits = {} THEN st.bitnum + w ELSE st.bitnum + first
    IN  IF flag1 # 0
        THEN [buf |-> push_str(st.buf,
                               STAR_L \o fmt_04(st.bitnum) \o <<32>>
                               \o lib_bit_chars(fuses, st.bitnum, w) \o <<NL>>),
              bitnum |-> st.bitnum + w, bitnum2 |-> bitnum2, flag |-> flag1]
        ELSE [buf |-> st.buf, bitnum |-> bitnum2, bitnum2 |-> bitnum2,
              flag |-> flag1]

\* for m in lo..hi+1
RECURSIVE lib_matrix_rows(_, _, _, _, _)
lib_matrix_rows(st, fuses, w, lo, hi) ==
    IF lo > hi THEN st
    ELSE IF lo = hi THEN lib_row(st, fuses, w)
    ELSE LET mid == (lo + hi) \div 2
             first == lib_matrix_rows(st, fuses, w, lo, mid)
         IN  \* the first half is computed before the second starts
             IF first.bitnum >= 0 THEN lib_matrix_rows(first, fuses, w, mid + 1, hi)
             ELSE first

\* the matrix loop and the "if flag == 0 { bitnum = bitnum2; }" after it
lib_matrix(b, fuses, t) ==
    LET st == lib_matrix_rows([buf |-> b, bitnum |-> 0, bitnum2 |-> 0, flag |-> 0],
                              fuses, max_fuse_addr(t) + 1, 0, row_size(t) - 1)
    IN  IF st.flag = 0 THEN [st EXCEPT !.bitnum = st.bitnum2] ELSE st

\* the XOR line: on GAL22V10 each XOR bit is followed by the S1 bit
lib_xor_chars(t, xor, s1) ==
    IF t = GAL22V10
    THEN [k \in 1..(2 * xor_size(t)) |->
            IF k % 2 = 1
            THEN (IF xor[(k + 1) \div 2] # 0 THEN 49 ELSE 48)
            ELSE (IF s1[k \div 2] # 0 THEN 49 ELSE 48)]
    ELSE lib_bit_chars(xor, 0, xor_size(t))

lib_line(bitnum, chars) == STAR_L \o fmt_04(bitnum) \o <<32>> \o chars \o <<NL>>

\* the GAL16V8 arm of "let checksum = match gal_type"
lib_checksum16(fuses, xor, sig, ac1, pt, syn, ac0, checks) ==
    LET r0 == [ok |-> TRUE, cs |-> CheckSummer_new]
        r1 == lib_add_all(r0, fuses, 1, 2048, checks)
        r2 == lib_add_all(r1, xor, 1, 8, checks)
        r3 == lib_add_all(r2, sig, 1, 64, checks)
        r4 == lib_add_all(r3, ac1, 1, 8, checks)
        r5 == lib_add_all(r4, pt, 1, 64, checks)
        r6 == lib_add_all(r5, <<syn>>, 1, 1, checks)
    IN  lib_add_all(r6, <<ac0>>, 1, 1, checks)

lib_fed16(fuses, xor, sig, ac1, pt, syn, ac0) ==
    SubSeq(fuses, 1, 2048) \o SubSeq(xor, 1, 8) \o SubSeq(sig, 1, 64)
    \o SubSeq(ac1, 1, 8) \o SubSeq(pt, 1, 64) \o <<syn, ac0>>

\* format!("{:04x}\n", file_checksum & 0xffff)
lib_file_checksum_line(b) == fmt_04x(sum_bytes(b) % U16) \o <<NL>>

LIB(at) == impl = "lib" /\ pc = at

\* call_from_c up to its call of make_jedec: the slices are taken from the
\* raw pointers with the fixed lengths 5808, 10, 10, SIG_SIZE, AC1_SIZE, PT_SIZE
call_from_c ==
    /\ LIB("call_from_c")
    /\ pc' = "start"
    /\ UNCHANGED <<inputs, buf, checksum, idx, fed, file_written, harness>>

\* the three matches on gal_type and the header; "_ => panic!"
lib_header ==
    /\ LIB("start")
    /\ IF gal_type \in Chips
       THEN /\ buf' = header(gal_type, jedec_sec_bit)
            /\ pc' = "matrix"
       ELSE /\ buf' = buf
            /\ pc' = "panic"
    /\ UNCHANGED <<inputs, checksum, idx, fed, file_written, harness>>

lib_matrix_step ==
    /\ LIB("matrix")
    /\ LET st == lib_matrix(buf, gal_fuses, gal_type)
       IN  buf' = st.buf /\ idx' = st.bitnum
    /\ pc' = "xor"
    /\ UNCHANGED <<inputs, checksum, fed, file_written, harness>>

lib_xor ==
    /\ LIB("xor")
    /\ buf' = push_str(buf, lib_line(idx, lib_xor_chars(gal_type, gal_xor, gal_s1)))
    /\ idx' = idx + (IF gal_type = GAL22V10 THEN 2 ELSE 1) * xor_size(gal_type)
    /\ pc' = "sig"
    /\ UNCHANGED <<inputs, checksum, fed, file_written, harness>>

lib_sig ==
    /\ LIB("sig")
    /\ buf' = push_str(buf, lib_line(idx, lib_bit_chars(gal_sig, 0, SIG_SIZE)))
    /\ idx' = idx + SIG_SIZE
    /\ pc' = IF (gal_type = GAL16V8) \/ (gal_type = GAL20V8) THEN "ac1" ELSE "checksum"
    /\ UNCHANGED <<inputs, checksum, fed, file_written, harness>>

lib_ac1 ==
    /\ LIB("ac1")
    /\ buf' = push_str(buf, lib_line(idx, lib_bit_chars(gal_ac1, 0, AC1_SIZE)))
    /\ idx' = idx + AC1_SIZE
    /\ pc' = "pt"
    /\ UNCHANGED <<inputs, checksum, fed, file_written, harness>>

lib_pt ==
    /\ LIB("pt")
    /\ buf' = push_str(buf, lib_line(idx, lib_bit_chars(gal_pt, 0, PT_SIZE)))
    /\ idx' = idx + PT_SIZE
    /\ pc' = "syn"
    /\ UNCHANGED <<inputs, checksum, fed, file_written, harness>>

lib_syn ==
    /\ LIB("syn")
    /\ buf' = push_str(buf, lib_line(idx, <<IF gal_syn # 0 THEN 49 ELSE 48>>))
    /\ idx' = idx + 1
    /\ pc' = "ac0"
    /\ UNCHANGED <<inputs, checksum, fed, file_written, harness>>

\* bitnum is not advanced after the AC0 bit
lib_ac0 ==
    /\ LIB("ac0")
    /\ buf' = push_str(buf, lib_line(idx, <<IF gal_ac0 # 0 THEN 49 ELSE 48>>))
    /\ pc' = "checksum"
    /\ UNCHANGED <<inputs, checksum, idx, fed, file_written, harness>>

\* "let checksum = match gal_type { GAL16V8 => ..., _ => 0 }" and the *C line
lib_checksum ==
    /\ LIB("checksum")
    /\ \E checks \in BOOLEAN :
       IF gal_type = GAL16V8
       THEN LET r == lib_checksum16(gal_fuses, gal_xor, gal_sig, gal_ac1, gal_pt,
                                    gal_syn, gal_ac0, checks)
                got == lib_CheckSummer_get(r.cs, checks)
            IN  IF r.ok /\ got.ok
                THEN /\ buf' = push_str(buf, STAR_C \o fmt_04x(got.val) \o <<NL>>)
                     /\ checksum' = r.cs
                     /\ fed' = lib_fed16(gal_fuses, gal_xor, gal_sig, gal_ac1,
                                         gal_pt, gal_syn, gal_ac0)
                     /\ pc' = "footer"
                ELSE /\ pc' = "panic"
                     /\ UNCHANGED <<buf, checksum, fed>>
       ELSE /\ buf' = push_str(buf, STAR_C \o fmt_04x(0) \o <<NL>>)
            /\ pc' = "footer"
            /\ UNCHANGED <<checksum, fed>>
    /\ UNCHANGED <<inputs, idx, file_written, harness>>

lib_footer ==
    /\ LIB("footer")
    /\ buf' = push_str(push_str(buf, STAR_LINE), ETX)
    /\ pc' = "file_checksum"
    /\ UNCHANGED <<inputs, checksum, idx, fed, file_written, harness>>

lib_file_checksum ==
    /\ LIB("file_checksum")
    /\ buf' = push_str(buf, lib_file_checksum_line(buf))
    /\ pc' = "done"
    /\ UNCHANGED <<inputs, checksum, idx, fed, file_written, harness>>

\* call_from_c after make_jedec returned: the text is written to the file
call_from_c_write ==
    /\ LIB("done")
    /\ file_written' = TRUE
    /\ pc' = "returned"
    /\ UNCHANGED <<inputs, buf, checksum, idx, fed, harness>>

---------------------------------------------------------------------------
(* The calls that are made: the inputs.                                     *)

\* Bounds of the input families.
MaxStride == 3
MaxPat == 2

\* Lengths tried for the main matrix, relative to rows * row width.
Deltas == {0, -1, 1}
\* The tags call_from_c is given: the four chips and two unrecognised ones.
Tags == 0..5

\* n bits, every p-th of them set (none for p = 0)
Pat(n, p) == [i \in 1..n |-> p > 0 /\ i % p = 0]

\* A matrix of len bits in rows of w: with m > 0, every m-th row (the rows
\* m-1, 2m-1, ...) has all its fuses set but the first; all other fuses are
\* 0.  So m = 0 is the empty matrix, m = 1 has every row written, and a
\* larger m leaves all-zero rows before and between the rows written.
Matrix(len, w, m) ==
    [i \in 1..len |->
        /\ m > 0
        /\ ((i - 1) \div w) % m = m - 1
        /\ (i - 1) % w # 0]

ToU8(bits) == [i \in 1..Len(bits) |-> IF bits[i] THEN 1 ELSE 0]

profile_len(t) == row_size(t) * (max_fuse_addr(t) + 1)

NoHarness ==
    /\ cs_n = 0 /\ cs_total = 0 /\ cs_tail = 0
    /\ cs_out = [called |-> FALSE, ok |-> TRUE, val |-> 0]
    /\ overflow_checks = FALSE

InitState ==
    /\ pc = IF impl = "lib" THEN "call_from_c" ELSE "start"
    /\ buf = <<>>
    /\ checksum = CheckSummer_new
    /\ idx = 0
    /\ fed = <<>>
    /\ file_written = FALSE

\* make_jedec of jedec_writer.rs is called with a chip and bool slices
InitJW ==
    /\ impl = "jedec_writer"
    /\ gal_type \in Chips
    /\ jedec_sec_bit \in {0, 1}
    /\ \E m \in 0..MaxStride, delta \in Deltas :
          gal_fuses = Matrix(profile_len(gal_type) + delta, row_len(gal_type), m)
    /\ \E p \in 0..MaxPat :
          /\ gal_xor = Pat(xor_size(gal_type), p)
          /\ gal_s1 = Pat(C_S1_LEN, p + 1)
          /\ gal_sig = Pat(SIG_SIZE, p)
          /\ gal_ac1 = Pat(AC1_SIZE, p + 1)
          /\ gal_pt = Pat(PT_SIZE, p)
          /\ gal_syn = (p % 2 = 1)
          /\ gal_ac0 = (p >= 2)

\* call_from_c is called with a tag and pointers to u8 arrays of the sizes
\* it takes slices of
InitLib ==
    /\ impl = "lib"
    /\ gal_type \in Tags
    /\ jedec_sec_bit \in {0, 1}
    /\ \E m \in 0..MaxStride :
          gal_fuses =
             IF gal_type \in Chips
             THEN ToU8(Matrix(profile_len(gal_type), max_fuse_addr(gal_type) + 1, m))
                  \o [i \in 1..(C_FUSES_LEN - profile_len(gal_type)) |-> 0]
             ELSE [i \in 1..C_FUSES_LEN |-> 0]
    /\ \E p \in 0..MaxPat :
          /\ gal_xor = ToU8(Pat(C_XOR_LEN, p))
          /\ gal_s1 = ToU8(Pat(C_S1_LEN, p + 1))
          /\ gal_sig = ToU8(Pat(SIG_SIZE, p))
          /\ gal_ac1 = ToU8(Pat(AC1_SIZE, p + 1))
          /\ gal_pt = ToU8(Pat(PT_SIZE, p))
          /\ gal_syn = (IF p % 2 = 1 THEN 1 ELSE 0)
          /\ gal_ac0 = (IF p >= 2 THEN 1 ELSE 0)

Init == (InitJW \/ InitLib) /\ InitState /\ NoHarness

Next ==
    \/ jw_header \/ jw_matrix \/ jw_xor \/ jw_sig \/ jw_ac1 \/ jw_pt
    \/ jw_syn \/ jw_ac0 \/ jw_checksum \/ jw_footer \/ jw_file_checksum
    \/ call_from_c \/ lib_header \/ lib_matrix_step \/ lib_xor \/ lib_sig
    \/ lib_ac1 \/ lib_pt \/ lib_syn \/ lib_ac0 \/ lib_checksum \/ lib_footer
    \/ lib_file_checksum \/ call_from_c_write

Spec == Init /\ [][Next]_vars

---------------------------------------------------------------------------
(* A CheckSummer on its own: add(bit) calls on a fresh accumulator and a    *)
(* get() after them, for both CheckSummers and both kinds of build.  The   *)
(* bit sequences are a run of 1 bits followed by at most MaxTail bits that *)
(* start with a 0: enough ones carry the 16-bit sum past 65535.            *)

MaxAdds == 2066
MaxTail == 3

InitCS ==
    /\ impl \in {"jedec_writer", "lib"}
    /\ overflow_checks \in BOOLEAN
    /\ pc = "cs"
    /\ checksum = CheckSummer_new
    /\ cs_n = 0 /\ cs_total = 0 /\ cs_tail = 0
    /\ cs_out = [called |-> FALSE, ok |-> TRUE, val |-> 0]
    /\ gal_type = GAL16V8 /\ jedec_sec_bit = 0
    /\ gal_fuses = <<>> /\ gal_xor = <<>> /\ gal_s1 = <<>> /\ gal_sig = <<>>
    /\ gal_ac1 = <<>> /\ gal_pt = <<>> /\ gal_syn = FALSE /\ gal_ac0 = FALSE
    /\ buf = <<>> /\ idx = 0 /\ fed = <<>> /\ file_written = FALSE

\* the bit is allowed by the family of sequences
CanAdd(bit) ==
    /\ pc = "cs"
    /\ cs_n < MaxAdds
    /\ (cs_tail > 0 \/ ~bit) => cs_tail < MaxTail

\* bookkeeping of an add call: the bit's weight is 2^(position mod 8)
Counted(bit) ==
    /\ cs_n' = cs_n + 1
    /\ cs_total' = cs_total + (IF bit THEN 2 ^ (cs_n % 8) ELSE 0)
    /\ cs_tail' = IF cs_tail > 0 \/ ~bit THEN cs_tail + 1 ELSE 0
    /\ cs_out' = [called |-> FALSE, ok |-> TRUE, val |-> 0]

cs_add ==
    /\ impl = "jedec_writer"
    /\ \E bit \in BOOLEAN :
          /\ CanAdd(bit)
          /\ checksum' = CheckSummer_add(checksum, bit)
          /\ Counted(bit)
    /\ UNCHANGED <<inputs, pc, buf, idx, fed, file_written, overflow_checks>>

cs_get ==
    /\ impl = "jedec_writer"
    /\ pc = "cs"
    /\ LET got == CheckSummer_get(checksum, overflow_checks)
       IN  /\ cs_out' = [called |-> TRUE, ok |-> got.ok, val |-> got.val]
           /\ pc' = IF got.ok THEN "cs" ELSE "panic"
    /\ UNCHANGED <<inputs, buf, checksum, idx, fed, file_written, cs_n, cs_total,
                   cs_tail, overflow_checks>>

lib_cs_add ==
    /\ impl = "lib"
    /\ \E bit \in BOOLEAN :
          /\ CanAdd(bit)
          /\ LET r == lib_CheckSummer_add(checksum, IF bit THEN 1 ELSE 0,
                                          overflow_checks)
             IN  IF r.ok
                 THEN checksum' = r.cs /\ pc' = pc /\ Counted(bit)
                 ELSE /\ pc' = "panic"
                      /\ UNCHANGED <<checksum, cs_n, cs_total, cs_tail, cs_out>>
    /\ UNCHANGED <<inputs, buf, idx, fed, file_written, overflow_checks>>

lib_cs_get ==
    /\ impl = "lib"
    /\ pc = "cs"
    /\ LET got == lib_CheckSummer_get(checksum, overflow_checks)
       IN  /\ cs_out' = [called |-> TRUE, ok |-> got.ok, val |-> got.val]
           /\ pc' = IF got.ok THEN "cs" ELSE "panic"
    /\ UNCHANGED <<inputs, buf, checksum, idx, fed, file_written, cs_n, cs_total,
                   cs_tail, overflow_checks>>

NextCS == cs_add \/ cs_get \/ lib_cs_add \/ lib_cs_get

SpecCS == InitCS /\ [][NextCS]_vars

---------------------------------------------------------------------------
(* Reading the output back, and what the inputs say it should hold.         *)

\* the inputs as booleans (lib.rs takes u8 values and tests "!= 0")
AsBits(x) == IF impl = "lib" THEN [i \in 1..Len(x) |-> x[i] # 0] ELSE x
AsBit(x) == IF impl = "lib" THEN x # 0 ELSE x

\* the chip's matrix: all of the slice for jedec_writer.rs, the chip's part
\* of the 5808-byte slice for lib.rs
MatrixBits ==
    IF impl = "lib" THEN AsBits(SubSeq(gal_fuses, 1, profile_len(gal_type)))
    ELSE gal_fuses
RowWidth == IF impl = "lib" THEN max_fuse_addr(gal_type) + 1 ELSE row_len(gal_type)
MatrixLen == IF impl = "lib" THEN profile_len(gal_type) ELSE Len(gal_fuses)
NumRows == (MatrixLen + RowWidth - 1) \div RowWidth
RowFrom(r) == r * RowWidth + 1
RowTo(r) == Min((r + 1) * RowWidth, MatrixLen)
RowIsZero(r) == \A i \in RowFrom(r)..RowTo(r) : ~AsBit(gal_fuses[i])
RowIsWritten(r) == ~RowIsZero(r)
ZeroRows == {r \in 0..(NumRows - 1) : RowIsZero(r)}
WrittenRows == SelectSeq([k \in 1..NumRows |-> k - 1], RowIsWritten)

XorIn == AsBits(SubSeq(gal_xor, 1, xor_size(gal_type)))
S1In == AsBits(gal_s1)
\* XOR[0], S1[0], XOR[1], S1[1], ..., XOR[9], S1[9]
Alternation ==
    [k \in 1..20 |-> IF k % 2 = 1 THEN XorIn[(k + 1) \div 2] ELSE S1In[k \div 2]]
ExpXor == IF gal_type = GAL22V10 THEN Alternation ELSE XorIn
SigIn == AsBits(gal_sig)
Ac1In == AsBits(gal_ac1)
PtIn == AsBits(gal_pt)
HasTail == gal_type \in {GAL16V8, GAL20V8}
TailBits == IF HasTail THEN Ac1In \o PtIn \o <<AsBit(gal_syn), AsBit(gal_ac0)>> ELSE <<>>
ThroughSig == MatrixBits \o ExpXor \o SigIn
AllBits == ThroughSig \o TailBits

\* sum over i of bits[i] * 2^(i mod 8), i counted from 0: the bytes of the
\* packed sequence added up, the trailing partial byte included
RECURSIVE PackedSum(_, _, _)
PackedSum(bits, lo, hi) ==
    IF lo > hi THEN 0
    ELSE IF lo = hi THEN (IF bits[lo] THEN 2 ^ ((lo - 1) % 8) ELSE 0)
    ELSE LET mid == (lo + hi) \div 2
         IN  PackedSum(bits, lo, mid) + PackedSum(bits, mid + 1, hi)
ExpFuseSum == PackedSum(AllBits, 1, Len(AllBits))

\* exactly four lowercase hex digits of v < 65536, and four decimal digits
HexChar(d) == IF d < 10 THEN 48 + d ELSE 97 + (d - 10)
Hex4(v) == <<HexChar(v \div 4096), HexChar((v \div 256) % 16),
             HexChar((v \div 16) % 16), HexChar(v % 16)>>
IsDecDigit(c) == c >= 48 /\ c <= 57
Dec4Val(l, at) ==
    (l[at] - 48) * 1000 + (l[at + 1] - 48) * 100 + (l[at + 2] - 48) * 10 + (l[at + 3] - 48)

\* a well-formed "*Lnnnn bits\n" line, its offset and its bits
IsLLine(l) == Len(l) >= 2 /\ l[1] = 42 /\ l[2] = 76
LWellFormed(l) ==
    /\ Len(l) >= 8
    /\ \A i \in 3..6 : IsDecDigit(l[i])
    /\ l[7] = 32
    /\ l[Len(l)] = NL
    /\ \A i \in 8..(Len(l) - 1) : l[i] \in {48, 49}
LOffset(l) == Dec4Val(l, 3)
LBits(l) == [i \in 1..(Len(l) - 8) |-> l[7 + i] = 49]
LLines == SelectSeq(buf, IsLLine)

IsCLine(l) == Len(l) >= 2 /\ l[1] = 42 /\ l[2] = 67
CLines == {k \in 1..Len(buf) : IsCLine(buf[k])}
CAt == CHOOSE k \in CLines : TRUE

\* the encoder has just written the *C line / has returned its text
IsJW == impl = "jedec_writer"
ChecksumWritten == pc = "footer"
Finished == pc = "done"

---------------------------------------------------------------------------
(* The claims.                                                              *)

\* C1: in jedec_writer.rs make_jedec, the value on the *C line is the
\* modulo-65536 sum of the bytes that pack, 8 bits per byte with bit i
\* weighted 2^i, the whole bit sequence: all matrix rows (written or
\* skipped), XOR (interleaved with S1 on GAL22V10), signature, and AC1, PT,
\* SYN, AC0 where the chip has them, the trailing partial byte included.
C1_FuseChecksum ==
    (IsJW /\ Finished) =>
        /\ Cardinality(CLines) = 1
        /\ buf[CAt] = STAR_C \o Hex4(ExpFuseSum % U16) \o <<NL>>

\* a finished encoding with skipped and written rows, whose unreduced sum
\* passes 65535 and whose last byte is partial and not zero
C1_Witness ==
    /\ IsJW /\ pc = "done"
    /\ MatrixLen = profile_len(gal_type)
    /\ ZeroRows # {} /\ Len(WrittenRows) > 0
    /\ ExpFuseSum >= U16
    /\ Len(AllBits) % 8 # 0 /\ AllBits[Len(AllBits)]

\* C2: the 4-digit offset of every *L line is the number of bits of all
\* rows and sections before it, skipped rows counted: the offsets of the
\* written rows, of XOR, signature, AC1, PT, SYN and AC0 are those the
\* inputs' lengths give.
StartsWrittenRow(o) == RowIsWritten(o \div RowWidth)
ExpRowOffsets ==
    SelectSeq([k \in 1..NumRows |-> (k - 1) * RowWidth], StartsWrittenRow)
ExpSectionOffsets ==
    LET m == MatrixLen
        x == m + Len(ExpXor)
        g == x + Len(SigIn)
    IN  <<m, x>> \o (IF HasTail
                     THEN <<g, g + Len(Ac1In), g + Len(Ac1In) + Len(PtIn),
                            g + Len(Ac1In) + Len(PtIn) + 1>>
                     ELSE <<>>)
ExpOffsets == ExpRowOffsets \o ExpSectionOffsets

C2_Offsets ==
    (IsJW /\ Finished) =>
        \A ls \in {LLines}, exp \in {ExpOffsets} :
            /\ Len(ls) = Len(exp)
            /\ \A k \in 1..Len(ls) :
                  \A l \in {ls[k]} : LWellFormed(l) /\ LOffset(l) = exp[k]

\* a finished encoding whose first row was skipped and a later one written
C2_Witness ==
    /\ IsJW /\ pc = "done"
    /\ MatrixLen = profile_len(gal_type)
    /\ 0 \in ZeroRows /\ Len(WrittenRows) > 0
    /\ Cardinality(ZeroRows) > 1

\* C3: the trailing whole-file checksum is the sum of the bytes from the
\* 0x02 through the 0x03, reduced modulo 65536, written as exactly 4
\* lowercase hex digits and a newline after the 0x03.  (Stated for the
\* matrices of the chip's own size, where every encoder should agree.)
C3_FileChecksum ==
    (Finished /\ MatrixLen = profile_len(gal_type)) =>
        buf[Len(buf)] =
            ETX \o Hex4((sum_lines(buf, 1, Len(buf) - 1) + 3) % U16) \o <<NL>>

\* C4: a main matrix whose length is not rows * row width for the chip is
\* refused: no encoding is ever finished from it.
C4_LengthChecked ==
    Finished => Len(gal_fuses) = profile_len(gal_type)

\* C5: at the integer-tag boundary a tag other than 1..4 is reported as an
\* error to the caller; the process does not panic.
C5_TagChecked ==
    (impl = "lib" /\ gal_type \notin Chips) => pc # "panic"

\* C6: on GAL16V8 and GAL20V8 the signature line is followed by exactly
\* the four lines AC1, PT, SYN, AC0, in that order, and then the *C line;
\* on GAL22V10 and GAL20RA10 the *C line follows the signature line and no
\* bit after the signature is fed to the fuse checksum.
LineHolds(l, bits) == IsLLine(l) /\ LWellFormed(l) /\ LBits(l) = bits

C6_FieldOrder ==
    Finished =>
        \A k \in {CAt} :
            /\ Cardinality(CLines) = 1
            /\ Len(LLines) = Len(ExpOffsets)
            /\ IF HasTail
               THEN /\ k > 6
                    /\ LineHolds(buf[k - 6], ExpXor)
                    /\ LineHolds(buf[k - 5], SigIn)
                    /\ LineHolds(buf[k - 4], Ac1In)
                    /\ LineHolds(buf[k - 3], PtIn)
                    /\ LineHolds(buf[k - 2], <<AsBit(gal_syn)>>)
                    /\ LineHolds(buf[k - 1], <<AsBit(gal_ac0)>>)
               ELSE /\ k > 2
                    /\ LineHolds(buf[k - 2], ExpXor)
                    /\ LineHolds(buf[k - 1], SigIn)
                    /\ Len(fed) <= Len(ThroughSig)
                    /\ AsBits(fed) = SubSeq(ThroughSig, 1, Len(fed))

\* a finished GAL16V8/GAL20V8 encoding whose SYN and AC0 bits differ
C6_Witness ==
    /\ pc = "done" /\ HasTail
    /\ AsBit(gal_syn) # AsBit(gal_ac0)

\* C7: on GAL22V10 the XOR/S1 line carries XOR[0], S1[0], ..., XOR[9],
\* S1[9] and the same 20 bits, in that order, are fed to the fuse
\* checksum; on every other chip the line carries the XOR bits alone.
C7_Interleave ==
    Finished =>
        \A k \in {CAt}, m \in {MatrixLen} :
            IF gal_type = GAL22V10
            THEN /\ LineHolds(buf[k - 2], Alternation)
                 /\ Len(fed) >= m + 20
                 /\ AsBits(SubSeq(fed, m + 1, m + 20)) = Alternation
            ELSE LineHolds(buf[k - (IF HasTail THEN 6 ELSE 2)], XorIn)

\* C8: forcing emit on an all-zero row instead of skipping it.  The forced
\* encoder is make_jedec of jedec_writer.rs with add_iter called for the
\* rows of R whatever their bits.
forced_row_step(fb, row, r, R) ==
    IF r \in R \/ any(row) THEN add_iter(fb, row) ELSE skip_iter(fb, row)

RECURSIVE forced_rows(_, _, _, _, _, _)
forced_rows(fb, fuses, w, lo, hi, R) ==
    IF lo > hi THEN fb
    ELSE IF lo = hi THEN forced_row_step(fb, chunk(fuses, w, lo), lo, R)
    ELSE LET mid == (lo + hi) \div 2
             first == forced_rows(fb, fuses, w, lo, mid, R)
         IN  IF first.idx >= 0 THEN forced_rows(first, fuses, w, mid + 1, hi, R)
             ELSE first

ForcedEncode(R) ==
    LET f0 == FuseBuilder_new(header(gal_type, jedec_sec_bit))
        f1 == forced_rows(f0, gal_fuses, row_len(gal_type), 0,
                          num_chunks(gal_fuses, row_len(gal_type)) - 1, R)
        f2 == add_iter(xor_section(f1, gal_type, gal_xor, gal_s1), gal_sig)
        f3 == IF has_ac1_pt_syn_ac0(gal_type)
              THEN add_iter(add_iter(add_iter(add_iter(f2, gal_ac1), gal_pt),
                                     <<gal_syn>>), <<gal_ac0>>)
              ELSE f2
        f4 == FuseBuilder_checksum(f3, CheckSummer_get(f3.checksum, FALSE).val)
        b5 == push_str(push_str(f4.buf, STAR_LINE), ETX)
    IN  push_str(b5, file_checksum_line(b5))

FirstZeroRow == CHOOSE r \in ZeroRows : \A q \in ZeroRows : r <= q
CLineOf(b) == b[Len(b) - 2]

\* C8 as stated: the forced output ends with the same *C value and the
\* same whole-file checksum value as the output with the row skipped.
C8_SameBothChecksums ==
    (IsJW /\ pc = "done" /\ ZeroRows # {}) =>
        \A alt \in {ForcedEncode({FirstZeroRow})} :
            /\ CLineOf(alt) = CLineOf(buf)
            /\ alt[Len(alt)] = buf[Len(buf)]

\* C8, amended: the forced output, one row or every all-zero row written
\* as a line of zeros, ends with the same *C value.
C8_SameFuseChecksum ==
    (IsJW /\ pc = "done" /\ ZeroRows # {}) =>
        \A alt \in {ForcedEncode({FirstZeroRow}), ForcedEncode(ZeroRows)} :
            /\ IsCLine(CLineOf(alt))
            /\ CLineOf(alt) = CLineOf(buf)

\* a finished encoding with a skipped row before a written one, which the
\* forced encoder writes as one more line
C8_Witness ==
    /\ IsJW /\ pc = "done" /\ ZeroRows # {} /\ Len(WrittenRows) > 0
    /\ MatrixLen = profile_len(gal_type)
    /\ Len(ForcedEncode({FirstZeroRow})) = Len(buf) + 1

\* C9: after any sequence of add calls get() returns, without an error,
\* the exact packed sum modulo 65536; no add call fails either.
C9_GetIsSumMod ==
    /\ pc # "panic"
    /\ cs_out.called => (cs_out.ok /\ cs_out.val = cs_total % U16)

\* C10: with profile-sized arrays the writer's offset when the *C line is
\* written, which is the number of bits fed to the checksum, is the fuse
\* count of the *QF line.
QfValue == Dec4Val(buf[8], 4)

C10_FuseCount ==
    (IsJW /\ ChecksumWritten /\ Len(gal_fuses) = profile_len(gal_type)) =>
        /\ SubSeq(buf[8], 1, 3) = <<42, 81, 70>> /\ Len(buf[8]) = 8
        /\ idx = QfValue
        /\ Len(fed) = idx

\* the *C line of a profile-sized GAL22V10 encoding with skipped rows has
\* just been written
C10_Witness ==
    /\ IsJW /\ pc = "footer" /\ gal_type = GAL22V10
    /\ Len(gal_fuses) = profile_len(gal_type)
    /\ ZeroRows # {}

===========================================================================
